---- MODULE Spec2Model ----
(***************************************************************************)
(* Season / episode resolution of MediafileAutoFormatter                   *)
(* (src/src/analyzer/media_analyzer.py).                                   *)
(*                                                                         *)
(* A Python str is a sequence of one-character strings.  Optional[int] is  *)
(* a natural number or None.  A raised exception is recorded by its class  *)
(* name.  A File is a record (title, type, absolute path); a Folder is a   *)
(* record (title, files, folders).                                         *)
(***************************************************************************)
EXTENDS Integers, Sequences, FiniteSets, TLC

VARIABLES
    pc,                             \* position of the running call
    raised,                         \* exception that left the call, or "none"
    file_name, prefix, result,      \* _extract_episode_index_from_file_name
    files, prefix_result,           \* _get_file_name_prefix
    media_files, file_name_prefix,  \* _get_episodes: argument, detected prefix
    next_file,                      \*   position of the for loop
    episodes,                       \*   the episode map
    episode_index_not_found_files,  \*   the side-diversion list
    root, media_root,               \* TVAnalyzer._analyze: tree, builder media root
    season_folders, next_season,    \* _analyze_season: season folders, loop position
    seasons                         \*   the season map

vars == <<pc, raised, file_name, prefix, result, files, prefix_result,
          media_files, file_name_prefix, next_file, episodes,
          episode_index_not_found_files, root, media_root, season_folders,
          next_season, seasons>>

(***************************************************************************)
(* Python values                                                           *)
(***************************************************************************)

\* Optional[int]: None.  Every int the analyzer produces is >= 0.
None == -1

\* `if index:` on an Optional[int]: None and 0 are both falsy.
Truthy(index) == index # None /\ index # 0

\* [0-9] of the regular expressions.
Digits == {"0", "1", "2", "3", "4", "5", "6", "7", "8", "9"}

\* Characters for which str.isnumeric() holds although int() rejects them
\* (superscripts, fractions, CJK numerals); U+00B2 stands for all of them.
NonDecimalNumerics == {"²"}

DigitValue(c) ==
    CASE c = "0" -> 0 [] c = "1" -> 1 [] c = "2" -> 2 [] c = "3" -> 3
      [] c = "4" -> 4 [] c = "5" -> 5 [] c = "6" -> 6 [] c = "7" -> 7
      [] c = "8" -> 8 [] c = "9" -> 9

\* str.isnumeric(): non-empty and every character numeric.
isnumeric(str) ==
    /\ Len(str) > 0
    /\ \A k \in 1..Len(str) : str[k] \in Digits \cup NonDecimalNumerics

\* int(str) accepts a string of decimal digits; anything else is a ValueError.
IntAccepts(str) == Len(str) > 0 /\ \A k \in 1..Len(str) : str[k] \in Digits

RECURSIVE int(_)
int(str) ==
    IF Len(str) = 0 THEN 0
    ELSE 10 * int(SubSeq(str, 1, Len(str) - 1)) + DigitValue(str[Len(str)])

\* str.lower() on the letters the model uses.
LowerChar(c) ==
    CASE c = "S" -> "s" [] c = "E" -> "e" [] c = "A" -> "a"
      [] c = "O" -> "o" [] c = "N" -> "n" [] c = "X" -> "x" [] OTHER -> c

lower(str) == [k \in 1..Len(str) |-> LowerChar(str[k])]

\* `sub in str`
Contains(str, sub) ==
    \E k \in 0..(Len(str) - Len(sub)) : SubSeq(str, k + 1, k + Len(sub)) = sub

\* str.split(sep) for a one-character separator: empty tokens are kept.
RECURSIVE split(_, _)
split(str, sep) ==
    LET hits == {k \in 1..Len(str) : str[k] = sep}
    IN  IF hits = {} THEN <<str>>
        ELSE LET k == CHOOSE h \in hits : \A g \in hits : h <= g
             IN  <<SubSeq(str, 1, k - 1)>> \o split(SubSeq(str, k + 1, Len(str)), sep)

\* str.replace(old, ""): every non-overlapping occurrence, left to right.
RECURSIVE remove_all(_, _)
remove_all(str, old) ==
    IF Len(old) = 0 \/ Len(str) < Len(old) THEN str
    ELSE IF SubSeq(str, 1, Len(old)) = old
         THEN remove_all(SubSeq(str, Len(old) + 1, Len(str)), old)
         ELSE <<str[1]>> \o remove_all(Tail(str), old)

\* Last position of the maximal digit run starting at position k (k - 1: none).
DigitRunEnd(str, k) ==
    LET ends == {j \in k..Len(str) : \A m \in k..j : str[m] \in Digits}
    IN  IF ends = {} THEN k - 1 ELSE CHOOSE j \in ends : \A e \in ends : e <= j

(***************************************************************************)
(* Naming heuristics                                                       *)
(***************************************************************************)

SEASON_ALIASES == {<<"s", "e", "a", "s", "o", "n">>}

contains_season_keyword(str) ==
    \E alias \in SEASON_ALIASES : Contains(lower(str), alias)

\* First match of [0-9]+ ; the match is always numeric, so it is returned.
_extract_number_from_string(str) ==
    LET starts == {k \in 1..Len(str) : str[k] \in Digits}
    IN  IF starts = {} THEN None
        ELSE LET k == CHOOSE s \in starts : \A t \in starts : s <= t
             IN  int(SubSeq(str, k, DigitRunEnd(str, k)))

extract_season_index(folder_name) ==
    IF ~contains_season_keyword(folder_name) THEN None
    ELSE _extract_number_from_string(folder_name)

replace_special_chars(str) ==
    [k \in 1..Len(str) |-> IF str[k] \in {"_", "."} THEN " " ELSE str[k]]

\* Recognised trailing suffixes of a display name.
KnownSuffixes == {<<"m", "k", "v">>}

trunc_suffix_from_file_name(name) ==
    LET cut == {k \in 1..Len(name) :
                    /\ name[k] \in {" ", "."}
                    /\ SubSeq(name, k + 1, Len(name)) \in KnownSuffixes}
    IN  IF cut = {} THEN name
        ELSE SubSeq(name, 1, (CHOOSE k \in cut : TRUE) - 1)

(***************************************************************************)
(* Per-file episode index extraction                                       *)
(***************************************************************************)

\* Start positions of the matches of S[0-9]+E[0-9]+ .
NormalizedFormStarts(str) ==
    {k \in 1..Len(str) :
        /\ str[k] = "S"
        /\ LET e == DigitRunEnd(str, k + 1) + 1
           IN  /\ e > k + 1
               /\ e <= Len(str)
               /\ str[e] = "E"
               /\ DigitRunEnd(str, e + 1) > e}

\* The digits after "E" in the first match: i.group().split("E")[1].
NormalizedFormEpisode(str) ==
    LET k == CHOOSE s \in NormalizedFormStarts(str) :
                 \A t \in NormalizedFormStarts(str) : s <= t
        e == DigitRunEnd(str, k + 1) + 1
    IN  SubSeq(str, e + 1, DigitRunEnd(str, e + 1))

_extract_episode_index_from_normalized_form(str) ==
    IF NormalizedFormStarts(str) = {} THEN None
    ELSE int(NormalizedFormEpisode(str))

\* splited[0] of _extract_episode_index_from_file_name.
FirstToken(name, pre) ==
    LET underscore_replaced == replace_special_chars(name)
        suffix_removed == trunc_suffix_from_file_name(underscore_replaced)
        prefix_removed == remove_all(suffix_removed, pre)
    IN  split(prefix_removed, " ")[1]

Returned(index) == [kind |-> "return", index |-> index]
Raised(exception) == [kind |-> exception, index |-> None]

\* `if index:` after the normalized-form attempt.
NormalizedFormAccepted(index) == Truthy(index)

\* `if str_index.isnumeric(): return int(str_index)`
NumericTokenIndex(str_index) ==
    IF IntAccepts(str_index) THEN Returned(int(str_index)) ELSE Raised("ValueError")

\* The three attempts on splited[0].
IndexOfToken(str_index) ==
    LET normalized == _extract_episode_index_from_normalized_form(str_index)
        number == _extract_number_from_string(str_index)
    IN  IF isnumeric(str_index) THEN NumericTokenIndex(str_index)
        ELSE IF NormalizedFormAccepted(normalized) THEN Returned(normalized)
        ELSE IF Truthy(number) THEN Returned(number)
        ELSE Raised("EpisodeIndexNotFoundException")

_extract_episode_index_from_file_name(name, pre) ==
    IndexOfToken(FirstToken(name, pre))

(***************************************************************************)
(* Prefix discovery                                                        *)
(***************************************************************************)

\* Token(idx, str): a fresh token has been seen once.
Token(idx, str) == [idx |-> idx, str |-> str, count |-> 1]

\* Token.__eq__: same position and same word.
TokenEq(a, b) == a.idx = b.idx /\ a.str = b.str

_update_saved_tokens(saved_tokens, input_token) ==
    LET same == {k \in 1..Len(saved_tokens) : TokenEq(saved_tokens[k], input_token)}
    IN  IF same = {} THEN Append(saved_tokens, input_token)
        ELSE LET k == CHOOSE s \in same : \A t \in same : s <= t
             IN  [saved_tokens EXCEPT ![k].count = @ + 1]

\* The inner loop: the tokens of one title, position by position.
RECURSIVE SaveTokens(_, _, _)
SaveTokens(saved_tokens, splited_tokens, idx) ==
    IF idx >= Len(splited_tokens) THEN saved_tokens
    ELSE SaveTokens(_update_saved_tokens(saved_tokens,
                                         Token(idx, splited_tokens[idx + 1])),
                    splited_tokens, idx + 1)

\* The outer loop: every file of the list, in list order.
RECURSIVE SavedTokens(_, _)
SavedTokens(fs, n) ==
    IF n = 0 THEN <<>>
    ELSE SaveTokens(SavedTokens(fs, n - 1),
                    split(replace_special_chars(fs[n].title), " "), 0)

\* prefix_token_last_index: -1 when no saved token has count <= 1.
PrefixTokenLastIndex(saved_tokens) ==
    LET low == {k \in 0..(Len(saved_tokens) - 1) : saved_tokens[k + 1].count <= 1}
    IN  IF low = {} THEN -1
        ELSE (CHOOSE k \in low : \A m \in low : k <= m) - 1

RECURSIVE JoinTokens(_, _)
JoinTokens(saved_tokens, last) ==
    IF last < 0 THEN <<>>
    ELSE JoinTokens(saved_tokens, last - 1) \o saved_tokens[last + 1].str \o <<" ">>

_get_file_name_prefix(fs) ==
    LET saved_tokens == SavedTokens(fs, Len(fs))
        prefix_token_last_index == PrefixTokenLastIndex(saved_tokens)
    IN  IF prefix_token_last_index >= 0
        THEN JoinTokens(saved_tokens, prefix_token_last_index)
        ELSE <<>>

(***************************************************************************)
(* Episode map of one season: TVAnalyzer._get_episodes                     *)
(***************************************************************************)

File(title, type, absolute_path) ==
    [title |-> title, type |-> type, absolute_path |-> absolute_path]

\* What dict.get answers for a missing key.
NoFile == File(<<>>, "None", <<>>)

EmptyDict == [k \in {} |-> NoFile]

\* episodes.get(episode_index, None)
dict_get(dict, key) == IF key \in DOMAIN dict THEN dict[key] ELSE NoFile

\* episodes[episode_index] = media_file
dict_set(dict, key, value) ==
    [k \in DOMAIN dict \cup {key} |-> IF k = key THEN value ELSE dict[k]]

\* `if episodes.get(episode_index, None):` a File object is truthy, None is not.
IsDuplicated(dict, episode_index) == dict_get(dict, episode_index) # NoFile

\* A diversion that forgets the file.
DivertForgets(not_found_files, media_file) == not_found_files

\* episode_index_not_found_files.append(media_file)
Divert(not_found_files, media_file) == Append(not_found_files, media_file)

EpisodesState(eps, not_found_files, exception) ==
    [episodes |-> eps, not_found |-> not_found_files, raised |-> exception]

\* An iteration that stores every resolved file, replacing an earlier one.
EpisodesLoopOverwrites(eps, not_found_files, media_file, r) ==
    IF r.kind = "EpisodeIndexNotFoundException"
    THEN EpisodesState(eps, Append(not_found_files, media_file), "none")
    ELSE IF r.kind # "return"
    THEN EpisodesState(eps, not_found_files, r.kind)
    ELSE EpisodesState(dict_set(eps, r.index, media_file), not_found_files, "none")

\* One iteration of `for media_file in media_files`, r being what
\* _extract_episode_index_from_file_name returned or raised.
EpisodesLoopStore(eps, not_found_files, media_file, r) ==
    IF r.kind = "EpisodeIndexNotFoundException"
    THEN EpisodesState(eps, Divert(not_found_files, media_file), "none")
    ELSE IF r.kind # "return"
    THEN EpisodesState(eps, not_found_files, r.kind)
    ELSE IF IsDuplicated(eps, r.index)
    THEN EpisodesState(eps, Divert(not_found_files, media_file), "none")
    ELSE IF dict_get(eps, r.index) # NoFile
    THEN EpisodesState(eps, not_found_files, "EpisodeIndexDuplicatedException")
    ELSE EpisodesState(dict_set(eps, r.index, media_file), not_found_files, "none")

EpisodesLoopBody(eps, not_found_files, media_file, pre) ==
    EpisodesLoopStore(eps, not_found_files, media_file,
                      _extract_episode_index_from_file_name(media_file.title, pre))

\* An exception ends the loop.
EpisodesLoopNext(before, media_file, pre) ==
    IF before.raised # "none" THEN before
    ELSE EpisodesLoopBody(before.episodes, before.not_found, media_file, pre)

\* The loop over the first n files.
RECURSIVE EpisodesLoop(_, _, _)
EpisodesLoop(fs, n, pre) ==
    IF n = 0 THEN EpisodesState(EmptyDict, <<>>, "none")
    ELSE EpisodesLoopNext(EpisodesLoop(fs, n - 1, pre), fs[n], pre)

\* The whole call; sorted(media_files, ...) builds a list that is dropped.
_get_episodes(fs) == EpisodesLoop(fs, Len(fs), _get_file_name_prefix(fs))

(***************************************************************************)
(* Folder tree, media roots, media files, subtitles                        *)
(***************************************************************************)

Folder(title, absolute_path, fs, folders) ==
    [title |-> title, absolute_path |-> absolute_path, files |-> fs,
     folders |-> folders]

NoFolder == Folder(<<>>, <<>>, <<>>, <<>>)

\* [file for file in list if file's type is one of types], list order kept.
FilesOfType(fs, types) ==
    LET OfType(file) == file.type \in types
    IN  SelectSeq(fs, OfType)

\* Folder.get_number_of_files_by_type
get_number_of_files_by_type(folder, file_type) ==
    Len(FilesOfType(folder.files, {file_type}))

\* Folder.contains_subtitle_file
contains_subtitle_file(folder) ==
    Len(FilesOfType(folder.files, {"SUBTITLE", "ARCHIVED_SUBTITLE"})) > 0

\* GeneralMediaAnalyzer._get_media_files over a list of folders: of each
\* folder the direct media files, and only when it has none, those of its
\* subfolders, depth first.
RECURSIVE MediaFilesOfFolders(_)
MediaFilesOfFolders(folders) ==
    IF Len(folders) = 0 THEN <<>>
    ELSE LET direct == FilesOfType(folders[1].files, {"MEDIA"})
         IN  (IF Len(direct) > 0 THEN direct
              ELSE MediaFilesOfFolders(folders[1].folders))
                 \o MediaFilesOfFolders(Tail(folders))

_get_media_files(folder) == MediaFilesOfFolders(<<folder>>)

_get_subtitle_file(folder) ==
    FilesOfType(folder.files, {"SUBTITLE", "ARCHIVED_SUBTITLE"})

_analyze_subtitles(folder) ==
    IF contains_subtitle_file(folder) THEN _get_subtitle_file(folder)
    ELSE LET with == {k \in 1..Len(folder.folders) :
                          contains_subtitle_file(folder.folders[k])}
         IN  IF with = {} THEN <<>>
             ELSE _get_subtitle_file(
                      folder.folders[CHOOSE k \in with : \A m \in with : k <= m])

\* MovieAnalyzer._find_media_root: the folder itself, else the first subfolder
\* with a direct media file, else MediaRootNotFoundException (NoFolder).
MovieFindMediaRoot(folder) ==
    LET HasMedia(f) == get_number_of_files_by_type(f, "MEDIA") > 0
        with == SelectSeq(folder.folders, HasMedia)
    IN  IF HasMedia(folder) THEN folder
        ELSE IF Len(with) > 0 THEN with[1]
        ELSE NoFolder

\* The test of TVAnalyzer._find_media_root on one subfolder.
MediaContained(folder) ==
    \/ get_number_of_files_by_type(folder, "MEDIA") > 0
    \/ contains_season_keyword(folder.title)

\* TVAnalyzer._find_media_root
_find_media_root(folder) ==
    LET media_contained_folder == SelectSeq(folder.folders, MediaContained)
    IN  IF Len(media_contained_folder) = 1 THEN media_contained_folder[1]
        ELSE folder

\* TVAnalyzer._find_season_folders
_find_season_folders(folder) ==
    LET IsSeason(f) == contains_season_keyword(f.title)
    IN  SelectSeq(folder.folders, IsSeason)

(***************************************************************************)
(* Seasons: TVAnalyzer._analyze_season                                     *)
(***************************************************************************)

SeasonMetadata(title, original_title, r, mr, mf, subtitles, season_index, eps) ==
    [title |-> title, original_title |-> original_title, root |-> r,
     media_root |-> mr, media_files |-> mf, subtitles |-> subtitles,
     season_index |-> season_index, episode_files |-> eps]

SeasonsState(dict, exception) == [seasons |-> dict, raised |-> exception]

\* seasons[season_index] = SeasonMetadata(...), unless _get_episodes raised.
SeasonStore(dict, title, original_title, r, mr, mf, subtitles, season_index, eps) ==
    IF eps.raised # "none" THEN SeasonsState(dict, eps.raised)
    ELSE SeasonsState(
             dict_set(dict, season_index,
                      SeasonMetadata(title, original_title, r, mr, mf, subtitles,
                                     season_index, eps.episodes)),
             "none")

SeasonOfFiles(dict, title, original_title, r, mr, mf, subtitles, season_index) ==
    SeasonStore(dict, title, original_title, r, mr, mf, subtitles, season_index,
                _get_episodes(mf))

\* `if not season_index: season_index = 1`
FlatSeasonIndex(extracted) == IF ~Truthy(extracted) THEN 1 ELSE extracted

\* The branch taken when no season folder is found.
FlatSeason(r, mr) ==
    SeasonOfFiles(EmptyDict, r.title, mr.title, r, mr, _get_media_files(mr),
                  _analyze_subtitles(r),
                  FlatSeasonIndex(extract_season_index(mr.title)))

\* `if len(media_root.get_folders()) > 1: raise SeasonIndexNotFoundException`
MultipleSeasonFolders(mr) == Len(mr.folders) > 1

\* The folder whose media files make the season.
SeasonMediaRoot(season_root) == _find_media_root(season_root)

SeasonOfMediaRoot(dict, r, mr, season_root, season_index, season_media_root) ==
    SeasonOfFiles(dict, r.title, season_root.title, mr, season_root,
                  _get_media_files(season_media_root),
                  _analyze_subtitles(season_media_root), season_index)

SeasonOfIndex(dict, r, mr, season_root, extracted) ==
    IF extracted = None /\ MultipleSeasonFolders(mr)
    THEN SeasonsState(dict, "SeasonIndexNotFoundException")
    ELSE SeasonOfMediaRoot(dict, r, mr, season_root,
                           IF extracted = None THEN 1 ELSE extracted,
                           SeasonMediaRoot(season_root))

\* One iteration of `for season_root in season_folders`.
SeasonLoopBody(dict, r, mr, season_root) ==
    SeasonOfIndex(dict, r, mr, season_root, extract_season_index(season_root.title))

(***************************************************************************)
(* Inputs                                                                  *)
(***************************************************************************)

MaxTokenLen == 5
MaxPrefixFiles == 3
MaxPrefixTitleLen == 3
MaxFiles == 3
MaxChildren == 2
MaxSubFolders == 1
MaxFolderFiles == 1

SeqsUpTo(S, lo, hi) == UNION {[1..n -> S] : n \in lo..hi}

Dot(a, b) == a \o <<".">> \o b

\* Episode tokens: every string over these characters, up to MaxTokenLen.
TokenChars == {"S", "E", "0", "1", "2", "x"}
ExtractTokens == SeqsUpTo(TokenChars, 1, MaxTokenLen)
ExtractNames ==
    ExtractTokens
        \cup {Dot(<<"a">>, t) : t \in ExtractTokens}
        \cup {Dot(t, <<"m", "k", "v">>) : t \in ExtractTokens}
ExtractPrefixes == {<<>>, <<"a", " ">>}

\* Titles of the prefix discovery: every string over words and separators.
PrefixChars == {"a", "b", ".", "_"}
PrefixTitles == SeqsUpTo(PrefixChars, 1, MaxPrefixTitleLen)
MediaFileList(titles) == [k \in 1..Len(titles) |-> File(titles[k], "MEDIA", <<k>>)]
PrefixFileLists == {MediaFileList(t) : t \in SeqsUpTo(PrefixTitles, 0, MaxPrefixFiles)}

\* Titles of one season: an episode word, alone or after a shared word.
EpisodeWords ==
    { <<"1">>, <<"0", "0">>, <<"S", "1", "E", "2">>, <<"S", "1", "E", "0">>,
      <<"x">>, <<"²">> }
EpisodeTitles == EpisodeWords \cup {Dot(<<"a">>, w) : w \in EpisodeWords}
EpisodeFileLists == {MediaFileList(t) : t \in SeqsUpTo(EpisodeTitles, 0, MaxFiles)}

\* Trees: a root, its subfolders and their subfolders, each with a title from
\* a few season-like and other names and up to MaxFolderFiles files.
Show == <<"S", "h", "o", "w">>
Season == <<"S", "e", "a", "s", "o", "n">>
Extras == <<"E", "x", "t", "r", "a", "s">>
Numbered(title, digit) == title \o <<" ", digit>>

FileShape(title, type) == [title |-> title, type |-> type]
FolderShape(title, fs, folders) == [title |-> title, files |-> fs, folders |-> folders]

RootTitles == {Show, Numbered(Season, "2")}
ChildTitles == {Season, Numbered(Season, "2"), Extras}
SubTitles == {Extras, Numbered(Season, "3")}
RootFileShapes == {FileShape(<<"1">>, "MEDIA")}
ChildFileShapes ==
    {FileShape(<<"1">>, "MEDIA"), FileShape(<<"²">>, "MEDIA"),
     FileShape(<<"1">>, "SUBTITLE")}
SubFileShapes == {FileShape(<<"2">>, "MEDIA")}

SubShapes ==
    {FolderShape(t, f, <<>>) :
        t \in SubTitles, f \in SeqsUpTo(SubFileShapes, 0, MaxFolderFiles)}
ChildShapes ==
    {FolderShape(t, f, d) :
        t \in ChildTitles, f \in SeqsUpTo(ChildFileShapes, 0, MaxFolderFiles),
        d \in SeqsUpTo(SubShapes, 0, MaxSubFolders)}
RootShapes ==
    {FolderShape(t, f, d) :
        t \in RootTitles, f \in SeqsUpTo(RootFileShapes, 0, MaxFolderFiles),
        d \in SeqsUpTo(ChildShapes, 0, MaxChildren)}

\* The tree of a shape: every node gets its absolute path.
FilesAt(path, shapes) ==
    [k \in 1..Len(shapes) |-> File(shapes[k].title, shapes[k].type, path \o <<0, k>>)]
SubFolderAt(path, shape) ==
    Folder(shape.title, path, FilesAt(path, shape.files), <<>>)
ChildFolderAt(path, shape) ==
    Folder(shape.title, path, FilesAt(path, shape.files),
           [k \in 1..Len(shape.folders) |-> SubFolderAt(path \o <<k>>, shape.folders[k])])
RootFolderOf(shape) ==
    Folder(shape.title, <<>>, FilesAt(<<>>, shape.files),
           [k \in 1..Len(shape.folders) |-> ChildFolderAt(<<k>>, shape.folders[k])])
Roots == {RootFolderOf(shape) : shape \in RootShapes}

(***************************************************************************)
(* Specifications of the three per-season computations                     *)
(***************************************************************************)

ExtractIdle ==
    /\ file_name = <<>> /\ prefix = <<>> /\ result = Raised("none")
PrefixIdle ==
    /\ files = <<>> /\ prefix_result = <<>>
EpisodesIdle ==
    /\ media_files = <<>> /\ file_name_prefix = <<>> /\ next_file = 0
    /\ episodes = EmptyDict /\ episode_index_not_found_files = <<>>
AnalyzeIdle ==
    /\ root = NoFolder /\ media_root = NoFolder /\ season_folders = <<>>
    /\ next_season = 0 /\ seasons = EmptyDict

extract_vars == <<file_name, prefix, result>>
prefix_vars == <<files, prefix_result>>
episodes_vars == <<media_files, file_name_prefix, next_file, episodes,
                   episode_index_not_found_files>>
analyze_vars == <<root, media_root, season_folders, next_season, seasons>>

\* -- _extract_episode_index_from_file_name on one title ------------------
InitExtract ==
    /\ pc = "extract" /\ raised = "none"
    /\ file_name \in ExtractNames /\ prefix \in ExtractPrefixes
    /\ result = Raised("none")
    /\ PrefixIdle /\ EpisodesIdle /\ AnalyzeIdle

ExtractEpisodeIndex ==
    /\ pc = "extract"
    /\ result' = _extract_episode_index_from_file_name(file_name, prefix)
    /\ pc' = IF result'.kind = "return" THEN "returned" ELSE "raised"
    /\ raised' = IF result'.kind = "return" THEN "none" ELSE result'.kind
    /\ UNCHANGED <<file_name, prefix, prefix_vars, episodes_vars, analyze_vars>>

SpecExtract == InitExtract /\ [][ExtractEpisodeIndex]_vars

\* -- _get_file_name_prefix on one list of files ---------------------------
InitPrefix ==
    /\ pc = "prefix" /\ raised = "none"
    /\ files \in PrefixFileLists /\ prefix_result = <<>>
    /\ ExtractIdle /\ EpisodesIdle /\ AnalyzeIdle

GetFileNamePrefix ==
    /\ pc = "prefix"
    /\ prefix_result' = _get_file_name_prefix(files)
    /\ pc' = "returned"
    /\ UNCHANGED <<raised, files, extract_vars, episodes_vars, analyze_vars>>

SpecPrefix == InitPrefix /\ [][GetFileNamePrefix]_vars

\* -- _get_episodes on one list of files, one loop iteration per step -----
InitEpisodes ==
    /\ pc = "get_episodes" /\ raised = "none"
    /\ media_files \in EpisodeFileLists
    /\ file_name_prefix = <<>> /\ next_file = 0
    /\ episodes = EmptyDict /\ episode_index_not_found_files = <<>>
    /\ ExtractIdle /\ PrefixIdle /\ AnalyzeIdle

GetEpisodesStart ==
    /\ pc = "get_episodes"
    /\ file_name_prefix' = _get_file_name_prefix(media_files)
    /\ next_file' = 1
    /\ pc' = "for_media_file"
    /\ UNCHANGED <<raised, media_files, episodes, episode_index_not_found_files,
                   extract_vars, prefix_vars, analyze_vars>>

GetEpisodesLoop ==
    /\ pc = "for_media_file"
    /\ next_file <= Len(media_files)
    /\ LET after == EpisodesLoopBody(episodes, episode_index_not_found_files,
                                     media_files[next_file], file_name_prefix)
       IN  /\ episodes' = after.episodes
           /\ episode_index_not_found_files' = after.not_found
           /\ raised' = after.raised
           /\ pc' = IF after.raised = "none" THEN "for_media_file" ELSE "raised"
    /\ next_file' = next_file + 1
    /\ UNCHANGED <<media_files, file_name_prefix, extract_vars, prefix_vars,
                   analyze_vars>>

GetEpisodesReturn ==
    /\ pc = "for_media_file"
    /\ next_file > Len(media_files)
    /\ pc' = "returned"
    /\ UNCHANGED <<raised, episodes_vars, extract_vars, prefix_vars, analyze_vars>>

NextEpisodes == GetEpisodesStart \/ GetEpisodesLoop \/ GetEpisodesReturn

SpecEpisodes == InitEpisodes /\ [][NextEpisodes]_vars

\* -- TVAnalyzer.analyze on one tree, one season folder per step -----------
InitAnalyze ==
    /\ pc = "analyze" /\ raised = "none"
    /\ root \in Roots
    /\ media_root = NoFolder /\ season_folders = <<>> /\ next_season = 0
    /\ seasons = EmptyDict
    /\ ExtractIdle /\ PrefixIdle /\ EpisodesIdle

\* GeneralMediaAnalyzer._analyze: the builder's media root.
Analyze ==
    /\ pc = "analyze"
    /\ media_root' = _find_media_root(root)
    /\ pc' = "analyze_season"
    /\ UNCHANGED <<raised, root, season_folders, next_season, seasons,
                   extract_vars, prefix_vars, episodes_vars>>

\* _analyze_season up to the choice of the regime.
FindSeasonFolders ==
    /\ pc = "analyze_season"
    /\ season_folders' = _find_season_folders(root)
    /\ next_season' = 1
    /\ pc' = IF Len(season_folders') = 0 THEN "season_folder_not_found"
             ELSE "for_season_root"
    /\ UNCHANGED <<raised, root, media_root, seasons, extract_vars, prefix_vars,
                   episodes_vars>>

AnalyzeFlatSeason ==
    /\ pc = "season_folder_not_found"
    /\ LET after == FlatSeason(root, media_root)
       IN  /\ seasons' = after.seasons
           /\ raised' = after.raised
           /\ pc' = IF after.raised = "none" THEN "returned" ELSE "raised"
    /\ UNCHANGED <<root, media_root, season_folders, next_season, extract_vars,
                   prefix_vars, episodes_vars>>

AnalyzeSeasonFolder ==
    /\ pc = "for_season_root"
    /\ next_season <= Len(season_folders)
    /\ LET after == SeasonLoopBody(seasons, root, media_root,
                                   season_folders[next_season])
       IN  /\ seasons' = after.seasons
           /\ raised' = after.raised
           /\ pc' = IF after.raised = "none" THEN "for_season_root" ELSE "raised"
           /\ next_season' = IF after.raised = "none" THEN next_season + 1
                             ELSE next_season
    /\ UNCHANGED <<root, media_root, season_folders, extract_vars, prefix_vars,
                   episodes_vars>>

AnalyzeReturn ==
    /\ pc = "for_season_root"
    /\ next_season > Len(season_folders)
    /\ pc' = "returned"
    /\ UNCHANGED <<raised, analyze_vars, extract_vars, prefix_vars, episodes_vars>>

NextAnalyze ==
    \/ Analyze
    \/ FindSeasonFolders
    \/ AnalyzeFlatSeason
    \/ AnalyzeSeasonFolder
    \/ AnalyzeReturn

SpecAnalyze == InitAnalyze /\ [][NextAnalyze]_vars

(***************************************************************************)
(* Properties                                                              *)
(***************************************************************************)

Range(f) == {f[k] : k \in DOMAIN f}

\* What file number k of the list resolves to under the detected prefix.
Resolved(k) ==
    _extract_episode_index_from_file_name(media_files[k].title, file_name_prefix)

\* The first file of the list that resolves to episode index e.
FirstResolving(e) ==
    CHOOSE k \in 1..Len(media_files) :
        /\ Resolved(k) = Returned(e)
        /\ \A j \in 1..(k - 1) : Resolved(j) # Returned(e)

\* C1: when the loop of _get_episodes has finished, no file sits under two
\* keys of the episode map, no diverted file is in the map, and every input
\* file is in exactly one of the map and the diversion list.
C1_EpisodesPartition ==
    pc = "returned" =>
        /\ \A a, b \in DOMAIN episodes : episodes[a] = episodes[b] => a = b
        /\ \A k \in 1..Len(episode_index_not_found_files) :
               episode_index_not_found_files[k] \notin Range(episodes)
        /\ \A k \in 1..Len(media_files) :
               (media_files[k] \in Range(episodes))
                   # (media_files[k] \in Range(episode_index_not_found_files))
        /\ Range(episodes) \cup Range(episode_index_not_found_files)
               \subseteq Range(media_files)
        /\ Cardinality(DOMAIN episodes) + Len(episode_index_not_found_files)
               = Len(media_files)

\* A finished loop that kept a file, diverted a colliding file and diverted a
\* file without an index.
C1_Witness ==
    /\ pc = "returned"
    /\ DOMAIN episodes # {}
    /\ \E k \in 1..Len(media_files) :
           /\ Resolved(k).kind = "return"
           /\ media_files[k] \in Range(episode_index_not_found_files)
    /\ \E k \in 1..Len(media_files) :
           /\ Resolved(k).kind = "EpisodeIndexNotFoundException"
           /\ media_files[k] \in Range(episode_index_not_found_files)

\* C2: the files are taken in list order, and at every point of the loop each
\* processed file that resolves to an index finds that index mapped to the
\* first file of the list resolving to it; every later such file is diverted.
C2_FirstFileKept ==
    pc \in {"for_media_file", "returned"} =>
        /\ \A k \in 1..(next_file - 1) :
               Resolved(k).kind = "return" =>
                   /\ Resolved(k).index \in DOMAIN episodes
                   /\ episodes[Resolved(k).index]
                          = media_files[FirstResolving(Resolved(k).index)]
                   /\ k # FirstResolving(Resolved(k).index) =>
                          media_files[k] \in Range(episode_index_not_found_files)
        /\ \A a, b \in 1..Len(episode_index_not_found_files) :
               a < b => episode_index_not_found_files[a].absolute_path[1]
                            < episode_index_not_found_files[b].absolute_path[1]
        /\ \A e \in DOMAIN episodes : episodes[e].absolute_path[1] < next_file

\* A finished loop in which three files resolved to the same index.
C2_Witness ==
    /\ pc = "returned"
    /\ \E a, b, c \in 1..Len(media_files) :
           /\ a < b /\ b < c
           /\ Resolved(a).kind = "return"
           /\ Resolved(b) = Resolved(a) /\ Resolved(c) = Resolved(a)
           /\ media_files[b].title # media_files[a].title

\* The longest common leading word sequence of the normalized titles.
TitleTokens(file) == split(replace_special_chars(file.title), " ")

CommonLeadLen(fs) ==
    LET common == {n \in 0..Len(TitleTokens(fs[1])) :
                      \A k \in 1..Len(fs) :
                          /\ Len(TitleTokens(fs[k])) >= n
                          /\ SubSeq(TitleTokens(fs[k]), 1, n)
                                 = SubSeq(TitleTokens(fs[1]), 1, n)}
    IN  CHOOSE n \in common : \A m \in common : m <= n

RECURSIVE JoinWords(_)
JoinWords(words) ==
    IF Len(words) = 0 THEN <<>>
    ELSE words[1] \o <<" ">> \o JoinWords(Tail(words))

\* C3: for two or more files whose normalized titles share a non-empty
\* leading word sequence, the detected prefix is exactly the longest such
\* sequence, every word followed by one space.
C3_PrefixIsCommonLead ==
    (pc = "returned" /\ Len(files) >= 2 /\ CommonLeadLen(files) >= 1) =>
        prefix_result
            = JoinWords(SubSeq(TitleTokens(files[1]), 1, CommonLeadLen(files)))

\* The reached season folder number k of the loop of _analyze_season.
SeasonReached(k) ==
    \/ pc \in {"for_season_root", "returned"} /\ k < next_season
    \/ pc = "raised" /\ k = next_season

\* C4: an unnumbered season folder that is the only season-keyword child of
\* the media root gets season index 1; with two or more season-keyword
\* children of the media root the analysis fails with SeasonIndexNotFound.
C4_UnnumberedSeasonFallback ==
    \A k \in 1..Len(season_folders) :
        ( /\ SeasonReached(k)
          /\ extract_season_index(season_folders[k].title) = None
          /\ season_folders[k] \in Range(media_root.folders) ) =>
            IF Len(_find_season_folders(media_root)) = 1
            THEN /\ pc # "raised"
                 /\ 1 \in DOMAIN seasons
                 /\ seasons[1].media_root = season_folders[k]
            ELSE pc = "raised" /\ raised = "SeasonIndexNotFoundException"

\* The season index a season folder is filed under.
SeasonIndexOf(folder) ==
    IF extract_season_index(folder.title) = None THEN 1
    ELSE extract_season_index(folder.title)

\* C5: the season folders are exactly the season-keyword children of the
\* media root: a season-folder entry is always such a child, and when the
\* media root has such a child the season-folder regime is used and every
\* such child's season index has an entry made from such a child.
C5_SeasonFoldersOfMediaRoot ==
    pc = "returned" =>
        /\ Len(season_folders) > 0 =>
               \A e \in DOMAIN seasons :
                   /\ contains_season_keyword(seasons[e].media_root.title)
                   /\ seasons[e].media_root \in Range(media_root.folders)
        /\ \A k \in 1..Len(media_root.folders) :
               contains_season_keyword(media_root.folders[k].title) =>
                   /\ Len(season_folders) > 0
                   /\ SeasonIndexOf(media_root.folders[k]) \in DOMAIN seasons
                   /\ seasons[SeasonIndexOf(media_root.folders[k])].media_root
                          \in Range(_find_season_folders(media_root))

\* C6: a first token that is not numeric and holds S<digits>E<digits> yields
\* the value of the digits after "E" of that match, whatever the digits.
C6_NormalizedFormIndex ==
    ( /\ pc \in {"returned", "raised"}
      /\ ~isnumeric(FirstToken(file_name, prefix))
      /\ NormalizedFormStarts(FirstToken(file_name, prefix)) # {} ) =>
        result = Returned(int(NormalizedFormEpisode(FirstToken(file_name, prefix))))

\* C7: every key of a season's episode map is a positive integer.
C7_EpisodeKeysPositive ==
    \A e \in DOMAIN episodes : e >= 1

\* C8: in the season-folder regime a season's media files are those of the
\* folder the movie rule picks for the season folder (itself when it holds a
\* media file, else its first subfolder holding one), so a season folder with
\* direct media files contributes exactly those.
C8_SeasonMediaRootByMovieRule ==
    (pc \in {"for_season_root", "returned"} /\ Len(season_folders) > 0) =>
        \A e \in DOMAIN seasons :
            /\ MovieFindMediaRoot(seasons[e].media_root) # NoFolder =>
                   seasons[e].media_files
                       = _get_media_files(MovieFindMediaRoot(seasons[e].media_root))
            /\ get_number_of_files_by_type(seasons[e].media_root, "MEDIA") > 0 =>
                   seasons[e].media_files
                       = FilesOfType(seasons[e].media_root.files, {"MEDIA"})

\* C9: the analysis never ends with EpisodeIndexNotFound or
\* EpisodeIndexDuplicated; it returns the metadata or fails with
\* SeasonIndexNotFound and nothing else.
C9_OnlySeasonIndexNotFound ==
    /\ raised \notin {"EpisodeIndexNotFoundException", "EpisodeIndexDuplicatedException"}
    /\ pc = "raised" => raised = "SeasonIndexNotFoundException"

\* The words of the detected prefix.
PrefixWords ==
    IF prefix_result = <<>> THEN <<>>
    ELSE SubSeq(split(prefix_result, " "), 1, Len(split(prefix_result, " ")) - 1)

\* C10: word number i of the detected prefix is a token recorded at position
\* i with count > 1, a non-empty prefix is the leading words of some title,
\* and when every recorded token has count > 1 the prefix holds them all.
C10_PrefixWalksPositions ==
    pc = "returned" =>
        LET saved_tokens == SavedTokens(files, Len(files))
        IN  /\ \A i \in 1..Len(PrefixWords) :
                   \E k \in 1..Len(saved_tokens) :
                       /\ saved_tokens[k].idx = i - 1
                       /\ saved_tokens[k].str = PrefixWords[i]
                       /\ saved_tokens[k].count > 1
            /\ prefix_result # <<>> =>
                   \E k \in 1..Len(files) :
                       /\ Len(TitleTokens(files[k])) >= Len(PrefixWords)
                       /\ SubSeq(TitleTokens(files[k]), 1, Len(PrefixWords))
                              = PrefixWords
            /\ ( /\ Len(saved_tokens) > 0
                 /\ \A k \in 1..Len(saved_tokens) : saved_tokens[k].count > 1 ) =>
                   prefix_result = JoinTokens(saved_tokens, Len(saved_tokens) - 1)

====
